---- MODULE Spec2Model ----
(***************************************************************************)
(* Discrete-event simulator of a multi-server queueing system              *)
(* (simple_simulator/simulator.cpp, simulator.h, random_generator.h).      *)
(*                                                                         *)
(* The Simulator object is the record `sim`; every C++ method is an        *)
(* operator of the same name from object state to object state.  Times are *)
(* doubles in the source and integers here; a generator is modelled by the *)
(* set of samples generate() can return.  std::priority_queue does not     *)
(* order events of equal time, so top() is any event no other event is     *)
(* earlier than.                                                           *)
(*                                                                         *)
(* Spec is the engine (run, run_until_jobs); FairSpec is the engine with   *)
(* the loop weakly fair; ConstructionSpec is the constructors of the       *)
(* generators and of Simulator, and generate(); DisciplineSpec is push and *)
(* pop on the classes of queue_disciplines.h and on FIFOQueue;             *)
(* ParallelSpec is the simulators that parallel_final.h runs in            *)
(* std::async tasks, their loops interleaved.                              *)
(***************************************************************************)
EXTENDS Integers, Sequences, FiniteSets, Bags, TLC

\* ---------------------------------------------------------------- bounds
\* largest sample of the discretised exponential distribution
MaxSample == 1
\* largest num_cores a simulator is constructed with
MaxCores == 2
\* largest finite buffer capacity a simulator is constructed with
MaxCapacity == 1
\* largest simulation_time passed to run
MaxTime == 2
\* largest jobs_to_process passed to run_until_jobs
MaxJobs == 1
\* simulator.cpp:84 and :135 (100000000 in the source, scaled down)
MAX_ITERATIONS == 4
\* largest parameter a generator is constructed with
MaxParam == 2
\* largest number of items pushed to a queue discipline
MaxPushes == 4
\* largest number of sub-queues of a round-robin discipline
MaxQueues == 3
\* largest number of simulators run in std::async tasks at once
MaxRuns == 2

VARIABLES
    sim,              \* the Simulator object (its data members)
    pc,               \* "constructed", "loop", "returned", "threw"
    fn,               \* the member function in progress or called last
    simulation_time,  \* argument of the run call in progress / last made
    jobs_to_process,  \* argument of the run_until_jobs call in progress / last made
    iteration_count,  \* local of run / run_until_jobs
    next_event,       \* local of run / run_until_jobs: the event popped last
    used,             \* history: the call in progress was made on a simulator no longer
                      \* in its constructed state, and has not handled an event yet
    arrival_obs,      \* history: job id -> what the job found at its arrival event
    lost_jobs,        \* history: ids of the jobs that took the "lost" branch
    departed_jobs,    \* history: ids of the jobs whose samples were recorded, in order
    call,             \* a constructor call: the class and the arguments
    object,           \* the object the constructor call left, NoObject if none
    outcome,          \* "call", "constructed", "generated", "invalid_argument", "abort"
    sample,           \* what generate() returned last (once outcome is "generated")
    strategy,         \* a queue discipline object (QueueStrategy<T> or FIFOQueue)
    last,             \* the call made last on strategy, and the object before it
    pushes,           \* history: number of push calls made (the n-th push pushes item n)
    pushed,           \* history: the items the push calls pushed, in order
    pops,             \* history: the items the pop calls returned, in order
    served,           \* history: the sub-queue the last successful pop took from
    tasks             \* the std::async tasks: the locals of each lambda, and what
                      \* its simulator has drawn so far

engine_vars == <<sim, pc, fn, simulation_time, jobs_to_process, iteration_count,
                 next_event, used, arrival_obs, lost_jobs, departed_jobs>>
construction_vars == <<call, object, outcome, sample>>
discipline_vars == <<strategy, last, pushes, pushed, pops, served>>
parallel_vars == <<tasks>>

vars == <<sim, pc, fn, simulation_time, jobs_to_process, iteration_count, next_event,
          used, arrival_obs, lost_jobs, departed_jobs,
          call, object, outcome, sample, strategy, last, pushes, pushed, pops, served,
          tasks>>

\* ------------------------------------------------------------ generators
DeterministicGenerator(value) == [kind |-> "Deterministic", p1 |-> value, p2 |-> 0]
ExponentialGenerator(lambda) == [kind |-> "Exponential", p1 |-> lambda, p2 |-> 0]
UniformGenerator(a, b) == [kind |-> "Uniform", p1 |-> a, p2 |-> b]
ErlangGenerator(k, lambda) == [kind |-> "Erlang", p1 |-> k, p2 |-> lambda]

\* ErlangGenerator::generate : the sums of k draws of the exponential distribution
RECURSIVE ErlangGenerator_generate(_)
ErlangGenerator_generate(k) ==
    IF k <= 0 THEN {0}
    ELSE {sum + x : sum \in ErlangGenerator_generate(k - 1), x \in 0..MaxSample}

\* the samples generate() can return; uniform_real_distribution(a, b) draws from
\* [a, b)
generate(g) ==
    IF g.kind = "Deterministic" THEN {g.p1}
    ELSE IF g.kind = "Uniform" THEN g.p1..(g.p2 - 1)
    ELSE IF g.kind = "Erlang" THEN ErlangGenerator_generate(g.p1)
    ELSE 0..MaxSample

\* ------------------------------------------------------------ Job, Event
Job(id, arrival, service) ==
    [id |-> id, arrival_time |-> arrival, service_time |-> service,
     start_time |-> -1, finish_time |-> -1]

\* variant: the wait measured up to finish_time instead of start_time
wait_time_to_finish(job) ==
    IF job.start_time >= 0 THEN job.finish_time - job.arrival_time ELSE 0

wait_time(job) ==
    IF job.start_time >= 0 THEN job.start_time - job.arrival_time ELSE 0

\* variant: the system time measured from start_time instead of arrival_time
system_time_from_start(job) ==
    IF job.finish_time >= 0 THEN job.finish_time - job.start_time ELSE 0

system_time(job) ==
    IF job.finish_time >= 0 THEN job.finish_time - job.arrival_time ELSE 0

ArrivalEvent(t) == [time |-> t, type |-> "ARRIVAL", job_id |-> -1, core_id |-> -1]
DepartureEvent(t, jid, cid) == [time |-> t, type |-> "DEPARTURE", job_id |-> jid, core_id |-> cid]
NoEvent == [time |-> 0, type |-> "NONE", job_id |-> -1, core_id |-> -1]

\* variant: the comparison of operator> turned around
Event_gt_reversed(a, b) == a.time < b.time

\* Event::operator>
Event_gt(a, b) == a.time > b.time

\* variant: top() that may be any pending event
event_queue_top_any(q) == BagToSet(q)

\* priority_queue<Event, vector<Event>, greater<Event>>::top : any event that is
\* greater than no other one
event_queue_top(q) ==
    {e \in BagToSet(q) : \A f \in BagToSet(q) : ~Event_gt(e, f)}

event_queue_push(q, e) == q (+) SetToBag({e})
event_queue_pop(q, e) == q (-) SetToBag({e})

\* ------------------------------------------------------------- FIFOQueue
\* variant: push that enqueues the job twice
FIFOQueue_push_twice(q, job) == Append(Append(q, job), job)
FIFOQueue_push(q, job) == Append(q, job)
\* variant: the job pushed last instead of the front
FIFOQueue_back(q) == q[Len(q)]
FIFOQueue_front(q) == Head(q)
\* variant: pop that returns the front job and leaves it in the queue
FIFOQueue_pop_keeps_front(q) == q
FIFOQueue_pop(q) == Tail(q)
\* variant: empty() that never says the queue is empty
FIFOQueue_empty_never(q) == FALSE
FIFOQueue_empty(q) == q = <<>>
FIFOQueue_size(q) == Len(q)
\* variant: clear() that leaves the job at the front
FIFOQueue_clear_but_front(q) == IF q = <<>> THEN q ELSE <<Head(q)>>
FIFOQueue_clear(q) == <<>>

\* ------------------------------------------------------------- Simulator
Cores(s) == 0..(s.num_cores_ - 1)

\* the object a successful constructor call leaves
Simulator(arrival_gen, service_gen, num_cores, buffer_cap) ==
    [current_time_ |-> 0, jobs_completed_ |-> 0, jobs_lost_ |-> 0,
     next_job_id_ |-> 0, total_arrivals_ |-> 0,
     arrival_generator_ |-> arrival_gen, service_generator_ |-> service_gen,
     num_cores_ |-> num_cores, buffer_capacity_ |-> buffer_cap,
     event_queue_ |-> EmptyBag, job_queue_ |-> <<>>,
     cores_busy_ |-> [i \in 0..(num_cores - 1) |-> FALSE],
     cores_finish_time_ |-> [i \in 0..(num_cores - 1) |-> 0],
     cores_current_job_ |-> [i \in 0..(num_cores - 1) |-> -1],
     active_jobs_ |-> << >>,
     wait_times_ |-> <<>>, system_times_ |-> <<>>,
     total_busy_time_ |-> 0, last_busy_check_time_ |-> 0,
     thrown |-> "none"]   \* the exception in flight, not a data member

\* variant: initialize() without job_queue_.clear()
initialize_keeps_job_queue(s) ==
    [s EXCEPT !.current_time_ = 0, !.jobs_completed_ = 0, !.jobs_lost_ = 0,
              !.next_job_id_ = 0, !.total_arrivals_ = 0,
              !.total_busy_time_ = 0, !.last_busy_check_time_ = 0,
              !.event_queue_ = EmptyBag,
              !.active_jobs_ = << >>,
              !.wait_times_ = <<>>, !.system_times_ = <<>>,
              !.cores_busy_ = [i \in Cores(s) |-> FALSE],
              !.cores_finish_time_ = [i \in Cores(s) |-> 0],
              !.cores_current_job_ = [i \in Cores(s) |-> -1]]

initialize(s) ==
    [s EXCEPT !.current_time_ = 0, !.jobs_completed_ = 0, !.jobs_lost_ = 0,
              !.next_job_id_ = 0, !.total_arrivals_ = 0,
              !.total_busy_time_ = 0, !.last_busy_check_time_ = 0,
              !.event_queue_ = EmptyBag, !.job_queue_ = FIFOQueue_clear(@),
              !.active_jobs_ = << >>,
              !.wait_times_ = <<>>, !.system_times_ = <<>>,
              !.cores_busy_ = [i \in Cores(s) |-> FALSE],
              !.cores_finish_time_ = [i \in Cores(s) |-> 0],
              !.cores_current_job_ = [i \in Cores(s) |-> -1]]

count_busy_cores(s) == Cardinality({i \in Cores(s) : s.cores_busy_[i]})

\* variant: no core is ever found free
find_free_core_finds_none(s) == -1

\* variant: the first core, whether busy or not
find_free_core_ignores_busy(s) == 0

find_free_core(s) ==
    IF \E i \in Cores(s) : ~s.cores_busy_[i]
    THEN CHOOSE i \in Cores(s) :
            ~s.cores_busy_[i] /\ \A j \in Cores(s) : ~s.cores_busy_[j] => i <= j
    ELSE -1

update_busy_statistics(s) ==
    IF s.last_busy_check_time_ < s.current_time_
    THEN [s EXCEPT !.total_busy_time_ =
                       @ + (s.current_time_ - s.last_busy_check_time_) * count_busy_cores(s),
                   !.last_busy_check_time_ = s.current_time_]
    ELSE s

\* variant: occupy_core that does not record the job
occupy_core_without_job(s, core_id, job_id, finish_time) ==
    IF core_id < 0 \/ core_id >= s.num_cores_
    THEN [s EXCEPT !.thrown = "out_of_range"]
    ELSE [s EXCEPT !.cores_busy_[core_id] = TRUE,
                   !.cores_finish_time_[core_id] = finish_time]

occupy_core(s, core_id, job_id, finish_time) ==
    IF core_id < 0 \/ core_id >= s.num_cores_
    THEN [s EXCEPT !.thrown = "out_of_range"]
    ELSE [s EXCEPT !.cores_busy_[core_id] = TRUE,
                   !.cores_finish_time_[core_id] = finish_time,
                   !.cores_current_job_[core_id] = job_id]

\* variant: release_core that leaves the core marked busy
release_core_stays_busy(s, core_id) ==
    IF core_id < 0 \/ core_id >= s.num_cores_
    THEN [s EXCEPT !.thrown = "out_of_range"]
    ELSE [s EXCEPT !.cores_finish_time_[core_id] = 0]

release_core(s, core_id) ==
    IF core_id < 0 \/ core_id >= s.num_cores_
    THEN [s EXCEPT !.thrown = "out_of_range"]
    ELSE [s EXCEPT !.cores_busy_[core_id] = FALSE,
                   !.cores_finish_time_[core_id] = 0,
                   !.cores_current_job_[core_id] = -1]

\* active_jobs_[job.id] = job
add_job(s, job) ==
    [s EXCEPT !.active_jobs_ =
        [k \in DOMAIN @ \cup {job.id} |-> IF k = job.id THEN job ELSE @[k]]]

\* variant: erase that removes nothing
active_jobs_erase_nothing(s, id) == s

\* active_jobs_.erase(id)
active_jobs_erase(s, id) ==
    [s EXCEPT !.active_jobs_ = [k \in DOMAIN @ \ {id} |-> @[k]]]

record_wait_time(s, time) == [s EXCEPT !.wait_times_ = Append(@, time)]
\* variant: the system time is not recorded when it is 0
record_system_time_if_positive(s, time) ==
    IF time = 0 THEN s ELSE [s EXCEPT !.system_times_ = Append(@, time)]
record_system_time(s, time) == [s EXCEPT !.system_times_ = Append(@, time)]

\* variant: size > capacity instead of size >= capacity
buffer_full_strict(s) ==
    IF s.buffer_capacity_ = -1 THEN FALSE
    ELSE FIFOQueue_size(s.job_queue_) > s.buffer_capacity_

\* variant: without the test for the "unbounded" capacity -1
buffer_full_without_unbounded(s) ==
    FIFOQueue_size(s.job_queue_) >= s.buffer_capacity_

\* variant: capacity 0 taken for "unbounded" as well
buffer_full_zero_unbounded(s) ==
    IF s.buffer_capacity_ <= 0 THEN FALSE
    ELSE FIFOQueue_size(s.job_queue_) >= s.buffer_capacity_

buffer_full(s) ==
    IF s.buffer_capacity_ = -1 THEN FALSE
    ELSE FIFOQueue_size(s.job_queue_) >= s.buffer_capacity_

\* variant: the next arrival is scheduled at the current time
schedule_next_arrival_now(s, interval) ==
    [s EXCEPT !.event_queue_ = event_queue_push(@, ArrivalEvent(s.current_time_))]

schedule_next_arrival(s, interval) ==
    [s EXCEPT !.event_queue_ =
        event_queue_push(@, ArrivalEvent(s.current_time_ + interval))]

\* variant: the departure event names the job that arrives next
schedule_departure_of_next_job(s, job_id, core_id, service_time) ==
    [s EXCEPT !.event_queue_ =
        event_queue_push(@, DepartureEvent(s.current_time_ + service_time, job_id + 1, core_id))]

\* variant: the departure event pushed twice
schedule_departure_twice(s, job_id, core_id, service_time) ==
    [s EXCEPT !.event_queue_ =
        event_queue_push(
            event_queue_push(@, DepartureEvent(s.current_time_ + service_time, job_id, core_id)),
            DepartureEvent(s.current_time_ + service_time, job_id, core_id))]

schedule_departure(s, job_id, core_id, service_time) ==
    [s EXCEPT !.event_queue_ =
        event_queue_push(@, DepartureEvent(s.current_time_ + service_time, job_id, core_id))]

\* service_time and interval are the samples the two generate() calls return
process_arrival(s, service_time, interval) ==
    LET s1 == [s EXCEPT !.total_arrivals_ = @ + 1]
        new_job == Job(s1.next_job_id_, s1.current_time_, service_time)
        s2 == add_job([s1 EXCEPT !.next_job_id_ = @ + 1], new_job)
        free_core == find_free_core(s2)
        started == [s2 EXCEPT !.active_jobs_[new_job.id].start_time = s2.current_time_]
        occupied == occupy_core(started, free_core, new_job.id,
                                s2.current_time_ + service_time)
        s3 == IF free_core # -1
              THEN IF occupied.thrown # "none" THEN occupied
                   ELSE schedule_departure(occupied, new_job.id, free_core, service_time)
              ELSE IF buffer_full(s2)
                   THEN active_jobs_erase([s2 EXCEPT !.jobs_lost_ = @ + 1], new_job.id)
                   ELSE [s2 EXCEPT !.job_queue_ = FIFOQueue_push(@, new_job)]
    IN  IF s3.thrown # "none" THEN s3 ELSE schedule_next_arrival(s3, interval)

process_departure(s, job_id, core_id) ==
    IF job_id \notin DOMAIN s.active_jobs_ THEN s
    ELSE
    LET job == [s.active_jobs_[job_id] EXCEPT !.finish_time = s.current_time_]
        s1 == record_system_time(record_wait_time(s, wait_time(job)), system_time(job))
        s2 == release_core(s1, core_id)
        s3 == active_jobs_erase([s2 EXCEPT !.jobs_completed_ = @ + 1], job_id)
        next_job == FIFOQueue_front(s3.job_queue_)
        \* job_queue_.pop() throws when std::queue is empty
        s4 == IF s3.job_queue_ = <<>> THEN [s3 EXCEPT !.thrown = "runtime_error"]
              ELSE [s3 EXCEPT !.job_queue_ = FIFOQueue_pop(@)]
        job_to_start == s4.active_jobs_[next_job.id]
        s5 == [s4 EXCEPT !.active_jobs_[next_job.id].start_time = s4.current_time_]
        s6 == occupy_core(s5, core_id, job_to_start.id,
                          s5.current_time_ + job_to_start.service_time)
    IN  IF s2.thrown # "none" THEN s2
        ELSE IF FIFOQueue_empty(s3.job_queue_) THEN s3
        ELSE IF s4.thrown # "none" THEN s4
        ELSE IF next_job.id \notin DOMAIN s4.active_jobs_ THEN s4
        ELSE IF s6.thrown # "none" THEN s6
        ELSE schedule_departure(s6, job_to_start.id, core_id, job_to_start.service_time)

\* one pass of the body of the event loop, from top() to the end of the switch
loop_body(s, e, service_time, interval) ==
    LET s1 == [s EXCEPT !.event_queue_ = event_queue_pop(@, e),
                        !.current_time_ = e.time]
        s2 == update_busy_statistics(s1)
    IN  IF e.type = "ARRIVAL" THEN process_arrival(s2, service_time, interval)
        ELSE process_departure(s2, e.job_id, e.core_id)

\* sum of a vector of samples
RECURSIVE sum(_)
sum(v) == IF v = <<>> THEN 0 ELSE Head(v) + sum(Tail(v))

\* the mean as the fraction num/den the division is made of
avg_wait_time(s) ==
    IF s.wait_times_ = <<>> THEN [num |-> 0, den |-> 1]
    ELSE [num |-> sum(s.wait_times_), den |-> Len(s.wait_times_)]

\* the utilization as the fraction num/den the division is made of
server_utilization(s) ==
    IF s.current_time_ = 0 THEN [num |-> 0, den |-> 1]
    ELSE [num |-> s.total_busy_time_, den |-> s.current_time_ * s.num_cores_]

\* getters
current_time(s) == s.current_time_
jobs_completed(s) == s.jobs_completed_
jobs_lost(s) == s.jobs_lost_
total_arrivals(s) == s.total_arrivals_
jobs_in_system(s) == Cardinality(DOMAIN s.active_jobs_)
queue_length(s) == FIFOQueue_size(s.job_queue_)

\* ----------------------------------------------------------- state machine
\* generators a simulator is constructed with: Deterministic(v), also with a
\* negative v (the constructor accepts any value), and Exponential
Generators ==
    {DeterministicGenerator(v) : v \in -1..(MaxSample + 1)} \cup {ExponentialGenerator(1)}

\* buffer capacities: -1 is "unbounded"
BufferCapacities == -1..MaxCapacity

NoObject == [kind |-> "none"]
NoCall == [class |-> "none", a |-> 0, b |-> 0,
           arrival_gen |-> NoObject, service_gen |-> NoObject]
NoOperation == [op |-> "none", item |-> -1, thrown |-> "none", before |-> NoObject,
                served_before |-> -1, cloned |-> NoObject]

\* no constructor call under way, no queue discipline in use
ConstructionIdle ==
    /\ call = NoCall
    /\ object = NoObject
    /\ outcome = "none"
    /\ sample = 0

DisciplineIdle ==
    /\ strategy = NoObject
    /\ last = NoOperation
    /\ pushes = 0
    /\ pushed = <<>>
    /\ pops = <<>>
    /\ served = -1

\* no task launched
ParallelIdle == tasks = <<>>

Init ==
    /\ ConstructionIdle
    /\ DisciplineIdle
    /\ ParallelIdle
    /\ sim \in {Simulator(a, g, n, c) : a \in Generators, g \in Generators,
                                        n \in 1..MaxCores, c \in BufferCapacities}
    /\ pc = "constructed"
    /\ fn = "none"
    /\ simulation_time = 0
    /\ jobs_to_process = 0
    /\ iteration_count = 0
    /\ next_event = NoEvent
    /\ used = FALSE
    /\ arrival_obs = << >>
    /\ lost_jobs = {}
    /\ departed_jobs = <<>>

\* run / run_until_jobs up to the loop: initialize() and the first arrival
call_prologue(s, interval) ==
    schedule_next_arrival(initialize([s EXCEPT !.thrown = "none"]), interval)

\* The first call on a simulator is any call; a call on a used simulator repeats
\* the call made before (initialize() makes the state at loop entry independent
\* of the call made before, so other sequences of calls reach the same states).
StartCall(f) ==
    /\ pc \in {"constructed", "returned", "threw"}
    /\ pc # "constructed" => f = fn
    /\ \E interval \in generate(sim.arrival_generator_) :
          sim' = call_prologue(sim, interval)
    /\ pc' = "loop"
    /\ fn' = f
    /\ iteration_count' = 0
    /\ next_event' = NoEvent
    /\ used' = (sim # Simulator(sim.arrival_generator_, sim.service_generator_,
                                 sim.num_cores_, sim.buffer_capacity_))
    /\ arrival_obs' = << >>
    /\ lost_jobs' = {}
    /\ departed_jobs' = <<>>
    /\ UNCHANGED <<construction_vars, discipline_vars, parallel_vars>>

Run ==
    /\ \E T \in 0..MaxTime :
          /\ pc # "constructed" => T = simulation_time
          /\ simulation_time' = T
    /\ StartCall("run")
    /\ UNCHANGED jobs_to_process

RunUntilJobs ==
    /\ \E K \in -1..MaxJobs :
          /\ pc # "constructed" => K = jobs_to_process
          /\ jobs_to_process' = K
    /\ StartCall("run_until_jobs")
    /\ UNCHANGED simulation_time

\* the loop conditions of run and of run_until_jobs
run_condition(s, T) ==
    BagToSet(s.event_queue_) # {} /\ s.current_time_ < T

\* variant: <= instead of <
run_until_jobs_condition_inclusive(s, K) ==
    BagToSet(s.event_queue_) # {} /\ s.jobs_completed_ <= K

run_until_jobs_condition(s, K) ==
    BagToSet(s.event_queue_) # {} /\ s.jobs_completed_ < K

LoopCondition ==
    IF fn = "run" THEN run_condition(sim, simulation_time)
    ELSE run_until_jobs_condition(sim, jobs_to_process)

\* what the history variables record of one pass of the loop
Observe(e) ==
    /\ arrival_obs' =
          IF e.type = "ARRIVAL"
          THEN [k \in DOMAIN arrival_obs \cup {sim.next_job_id_} |->
                  IF k = sim.next_job_id_
                  THEN [all_busy |-> \A c \in Cores(sim) : sim.cores_busy_[c],
                        queue_size |-> Len(sim.job_queue_),
                        arrival_time |-> e.time,
                        service_time |->
                           IF sim.next_job_id_ \in DOMAIN sim'.active_jobs_
                           THEN sim'.active_jobs_[sim.next_job_id_].service_time
                           ELSE 0]
                  ELSE arrival_obs[k]]
          ELSE arrival_obs
    /\ lost_jobs' =
          IF e.type = "ARRIVAL" /\ sim'.jobs_lost_ # sim.jobs_lost_
          THEN lost_jobs \cup {sim.next_job_id_} ELSE lost_jobs
    /\ departed_jobs' =
          IF e.type = "DEPARTURE" /\ Len(sim'.wait_times_) # Len(sim.wait_times_)
          THEN Append(departed_jobs, e.job_id) ELSE departed_jobs

\* variant: the loop without the test of iteration_count
Iterate_without_cap ==
    /\ pc = "loop"
    /\ LoopCondition
    /\ \E e \in event_queue_top(sim.event_queue_) :
          /\ IF e.type = "ARRIVAL"
             THEN \E service_time \in generate(sim.service_generator_) :
                  \E interval \in generate(sim.arrival_generator_) :
                     sim' = loop_body(sim, e, service_time, interval)
             ELSE sim' = loop_body(sim, e, 0, 0)
          /\ next_event' = e
          /\ Observe(e)
    /\ iteration_count' = iteration_count + 1
    /\ pc' = IF sim'.thrown # "none" THEN "threw" ELSE pc
    /\ used' = FALSE
    /\ UNCHANGED <<fn, simulation_time, jobs_to_process>>
    /\ UNCHANGED <<construction_vars, discipline_vars, parallel_vars>>

Iterate ==
    /\ pc = "loop"
    /\ LoopCondition
    /\ iteration_count + 1 <= MAX_ITERATIONS
    /\ \E e \in event_queue_top(sim.event_queue_) :
          /\ IF e.type = "ARRIVAL"
             THEN \E service_time \in generate(sim.service_generator_) :
                  \E interval \in generate(sim.arrival_generator_) :
                     sim' = loop_body(sim, e, service_time, interval)
             ELSE sim' = loop_body(sim, e, 0, 0)   \* a departure draws no sample
          /\ next_event' = e
          /\ Observe(e)
    /\ iteration_count' = iteration_count + 1
    /\ pc' = IF sim'.thrown # "none" THEN "threw" ELSE pc
    /\ used' = FALSE
    /\ UNCHANGED <<fn, simulation_time, jobs_to_process>>
    /\ UNCHANGED <<construction_vars, discipline_vars, parallel_vars>>

\* iteration_count > MAX_ITERATIONS: break, then the final update_busy_statistics
Break ==
    /\ pc = "loop"
    /\ LoopCondition
    /\ iteration_count + 1 > MAX_ITERATIONS
    /\ iteration_count' = iteration_count + 1
    /\ sim' = update_busy_statistics(sim)
    /\ pc' = "returned"
    /\ UNCHANGED <<fn, simulation_time, jobs_to_process, next_event, used,
                   arrival_obs, lost_jobs, departed_jobs>>
    /\ UNCHANGED <<construction_vars, discipline_vars, parallel_vars>>

\* the loop condition is false: the final update_busy_statistics, and return
Return ==
    /\ pc = "loop"
    /\ ~LoopCondition
    /\ sim' = update_busy_statistics(sim)
    /\ pc' = "returned"
    /\ UNCHANGED <<fn, simulation_time, jobs_to_process, iteration_count, next_event,
                   used, arrival_obs, lost_jobs, departed_jobs>>
    /\ UNCHANGED <<construction_vars, discipline_vars, parallel_vars>>

RunIterate == fn = "run" /\ Iterate
RunBreak == fn = "run" /\ Break
RunReturn == fn = "run" /\ Return
RunUntilJobsIterate == fn = "run_until_jobs" /\ Iterate
RunUntilJobsBreak == fn = "run_until_jobs" /\ Break
RunUntilJobsReturn == fn = "run_until_jobs" /\ Return

Next ==
    \/ Run
    \/ RunIterate
    \/ RunBreak
    \/ RunReturn
    \/ RunUntilJobs
    \/ RunUntilJobsIterate
    \/ RunUntilJobsBreak
    \/ RunUntilJobsReturn

Spec == Init /\ [][Next]_vars

\* a call in progress keeps running: the loop is sequential code that does not
\* wait for anything
LoopStep ==
    \/ RunIterate
    \/ RunBreak
    \/ RunReturn
    \/ RunUntilJobsIterate
    \/ RunUntilJobsBreak
    \/ RunUntilJobsReturn

\* ENABLED <<LoopStep>>_vars: inside the loop one of the three steps can be taken
LoopStepEnabled == pc = "loop"

\* simulators of which at least one generator is deterministic
DeterministicInit ==
    /\ Init
    /\ \/ sim.arrival_generator_.kind = "Deterministic"
       \/ sim.service_generator_.kind = "Deterministic"

\* weak fairness of the loop, WF_vars(LoopStep), with its ENABLED written out
FairSpec ==
    DeterministicInit /\ [][Next]_vars /\ ([]<>~LoopStepEnabled \/ []<><<LoopStep>>_vars)

\* --------------------------------------------------- construction of objects
\* the engine at rest: no simulator under consideration
EngineIdle ==
    /\ sim = NoObject
    /\ pc = "none"
    /\ fn = "none"
    /\ simulation_time = 0
    /\ jobs_to_process = 0
    /\ iteration_count = 0
    /\ next_event = NoEvent
    /\ used = FALSE
    /\ arrival_obs = << >>
    /\ lost_jobs = {}
    /\ departed_jobs = <<>>

\* what a constructor call ends in
Constructed(obj) == [outcome |-> "constructed", object |-> obj]
Failed(how) == [outcome |-> how, object |-> NoObject]

\* The distribution member is initialised before the constructor body tests the
\* parameters.  std::exponential_distribution requires 0 < lambda and
\* std::uniform_real_distribution requires a <= b; with the requirement violated
\* the behaviour is undefined: the build either goes on to the throw of the
\* constructor body or is stopped by the assertion of the library.
create_exponential(lambda) ==
    IF lambda <= 0 THEN {Failed("invalid_argument"), Failed("abort")}
    ELSE {Constructed(ExponentialGenerator(lambda))}

create_uniform(a, b) ==
    IF a > b THEN {Failed("invalid_argument"), Failed("abort")}
    ELSE IF a >= b THEN {Failed("invalid_argument")}
    ELSE {Constructed(UniformGenerator(a, b))}

create_deterministic(value) == {Constructed(DeterministicGenerator(value))}

create_erlang(k, lambda) ==
    IF lambda <= 0 THEN {Failed("invalid_argument"), Failed("abort")}
    ELSE IF k <= 0 THEN {Failed("invalid_argument")}
    ELSE {Constructed(ErlangGenerator(k, lambda))}

\* variant: the test num_cores < 0 instead of num_cores <= 0
Simulator_Simulator_accepts_zero(arrival_gen, service_gen, num_cores, buffer_cap) ==
    IF num_cores < 0 THEN {Failed("invalid_argument")}
    ELSE {Constructed(Simulator(arrival_gen, service_gen, num_cores, buffer_cap))}

\* Simulator::Simulator
Simulator_Simulator(arrival_gen, service_gen, num_cores, buffer_cap) ==
    IF num_cores <= 0 THEN {Failed("invalid_argument")}
    ELSE {Constructed(Simulator(arrival_gen, service_gen, num_cores, buffer_cap))}

Call(class, a, b, arrival_gen, service_gen) ==
    [class |-> class, a |-> a, b |-> b,
     arrival_gen |-> arrival_gen, service_gen |-> service_gen]

\* the constructor calls made: every class, valid and invalid arguments
Params == -1..MaxParam

GeneratorCalls ==
    {Call("Exponential", lambda, 0, NoObject, NoObject) : lambda \in Params}
    \cup {Call("Uniform", a, b, NoObject, NoObject) : a \in Params, b \in Params}
    \cup {Call("Deterministic", value, 0, NoObject, NoObject) : value \in Params}
    \cup {Call("Erlang", k, lambda, NoObject, NoObject) : k \in Params, lambda \in Params}

SimulatorCalls ==
    {Call("Simulator", num_cores, buffer_cap, arrival_gen, service_gen) :
        num_cores \in -1..MaxCores, buffer_cap \in -2..MaxCapacity,
        arrival_gen \in Generators, service_gen \in Generators}

construct(c) ==
    IF c.class = "Exponential" THEN create_exponential(c.a)
    ELSE IF c.class = "Uniform" THEN create_uniform(c.a, c.b)
    ELSE IF c.class = "Deterministic" THEN create_deterministic(c.a)
    ELSE IF c.class = "Erlang" THEN create_erlang(c.a, c.b)
    ELSE Simulator_Simulator(c.arrival_gen, c.service_gen, c.a, c.b)

ConstructionInit ==
    /\ EngineIdle
    /\ DisciplineIdle
    /\ ParallelIdle
    /\ call \in GeneratorCalls \cup SimulatorCalls
    /\ object = NoObject
    /\ outcome = "call"
    /\ sample = 0

Construct ==
    /\ outcome = "call"
    /\ \E r \in construct(call) :
          /\ object' = r.object
          /\ outcome' = r.outcome
    /\ UNCHANGED <<call, sample, engine_vars, discipline_vars, parallel_vars>>

\* generate() on a generator that was constructed
Generate ==
    /\ outcome \in {"constructed", "generated"}
    /\ call.class # "Simulator"
    /\ sample' \in generate(object)
    /\ outcome' = "generated"
    /\ UNCHANGED <<call, object, engine_vars, discipline_vars, parallel_vars>>

ConstructionNext ==
    \/ Construct
    \/ Generate

ConstructionSpec == ConstructionInit /\ [][ConstructionNext]_vars

\* -------------------------------------------------------- queue disciplines
\* what a pop() call ends in: the object left and the item returned, or the
\* exception thrown
Popped(s, item) == [self |-> s, item |-> item, thrown |-> "none"]
PopThrew(s) == [self |-> s, item |-> -1, thrown |-> "runtime_error"]

FIFOStrategy == [kind |-> "FIFO", queue_ |-> <<>>]

FIFOStrategy_push(s, item) == [s EXCEPT !.queue_ = Append(@, item)]

\* variant: pop that takes the item pushed last
FIFOStrategy_pop_back(s) ==
    IF s.queue_ = <<>> THEN {PopThrew(s)}
    ELSE {Popped([s EXCEPT !.queue_ = SubSeq(@, 1, Len(@) - 1)], s.queue_[Len(s.queue_)])}

FIFOStrategy_pop(s) ==
    IF s.queue_ = <<>> THEN {PopThrew(s)}
    ELSE {Popped([s EXCEPT !.queue_ = Tail(@)], Head(s.queue_))}

LIFOStrategy == [kind |-> "LIFO", stack_ |-> <<>>]

LIFOStrategy_push(s, item) == [s EXCEPT !.stack_ = Append(@, item)]

\* variant: pop that takes the item at the bottom of the stack
LIFOStrategy_pop_front(s) ==
    IF s.stack_ = <<>> THEN {PopThrew(s)}
    ELSE {Popped([s EXCEPT !.stack_ = Tail(@)], Head(s.stack_))}

LIFOStrategy_pop(s) ==
    IF s.stack_ = <<>> THEN {PopThrew(s)}
    ELSE {Popped([s EXCEPT !.stack_ = SubSeq(@, 1, Len(@) - 1)], s.stack_[Len(s.stack_)])}

RandomStrategy == [kind |-> "RANDOM", items_ |-> <<>>]

RandomStrategy_push(s, item) == [s EXCEPT !.items_ = Append(@, item)]

\* what x = std::move(y) leaves in x: y, or when x and y are one object (the
\* index drawn is the last one) a valid value that is not specified, here the
\* value itself or -1
move_assigned(x_is_y, y) == IF x_is_y THEN {y, -1} ELSE {y}

\* variant: pop that removes the last item without moving it to the index drawn
RandomStrategy_pop_drops_back(s) ==
    IF s.items_ = <<>> THEN {PopThrew(s)}
    ELSE {Popped([s EXCEPT !.items_ = SubSeq(@, 1, Len(@) - 1)], s.items_[idx + 1]) :
            idx \in 0..(Len(s.items_) - 1)}

\* idx is any index dist(0, size - 1) may draw; items_[idx] is copied out, the
\* last item is moved to idx, and the last position is dropped
RandomStrategy_pop(s) ==
    IF s.items_ = <<>> THEN {PopThrew(s)}
    ELSE UNION {
           {Popped([s EXCEPT !.items_ = SubSeq([@ EXCEPT ![idx + 1] = moved], 1, Len(@) - 1)],
                   s.items_[idx + 1]) :
              moved \in move_assigned(idx + 1 = Len(s.items_), s.items_[Len(s.items_)])} :
           idx \in 0..(Len(s.items_) - 1)}

PriorityStrategy == [kind |-> "PRIORITY", queue_ |-> EmptyBag]

PriorityItem(item, priority) == [item |-> item, priority |-> priority]

\* PriorityItem::operator>
PriorityItem_gt(a, b) == a.priority > b.priority

\* the priority of the new item is the size of the queue at the push
PriorityStrategy_push(s, item) ==
    [s EXCEPT !.queue_ = @ (+) SetToBag({PriorityItem(item, BagCardinality(s.queue_))})]

\* top() is any item that is greater than no other one
PriorityStrategy_pop(s) ==
    IF BagToSet(s.queue_) = {} THEN {PopThrew(s)}
    ELSE {Popped([s EXCEPT !.queue_ = @ (-) SetToBag({top})], top.item) :
            top \in {x \in BagToSet(s.queue_) :
                        \A y \in BagToSet(s.queue_) : ~PriorityItem_gt(x, y)}}

RoundRobinStrategy(num_queues) ==
    [kind |-> "ROUND_ROBIN", queues_ |-> [i \in 0..(num_queues - 1) |-> <<>>],
     current_queue_ |-> 0]

\* queues_.size()
queues_size(s) == Cardinality(DOMAIN s.queues_)

RoundRobinStrategy_push(s, item) ==
    [s EXCEPT !.queues_[s.current_queue_] = Append(@, item),
              !.current_queue_ = (@ + 1) % queues_size(s)]

\* variant: pop that moves the pointer on when it finds every sub-queue empty
RoundRobinStrategy_pop_advances(s) ==
    LET found == {i \in 0..(queues_size(s) - 1) :
                     s.queues_[(s.current_queue_ + i) % queues_size(s)] # <<>>}
        first == CHOOSE i \in found : \A j \in found : i <= j
        idx == (s.current_queue_ + first) % queues_size(s)
    IN  IF found = {}
        THEN {PopThrew([s EXCEPT !.current_queue_ = (@ + 1) % queues_size(s)])}
        ELSE {Popped([s EXCEPT !.queues_[idx] = Tail(@),
                               !.current_queue_ = (idx + 1) % queues_size(s)],
                     Head(s.queues_[idx]))}

\* the first i of the for loop with a non-empty sub-queue at (current_queue_ + i) % size
RoundRobinStrategy_pop(s) ==
    LET found == {i \in 0..(queues_size(s) - 1) :
                     s.queues_[(s.current_queue_ + i) % queues_size(s)] # <<>>}
        first == CHOOSE i \in found : \A j \in found : i <= j
        idx == (s.current_queue_ + first) % queues_size(s)
    IN  IF found = {} THEN {PopThrew(s)}
        ELSE {Popped([s EXCEPT !.queues_[idx] = Tail(@),
                               !.current_queue_ = (idx + 1) % queues_size(s)],
                     Head(s.queues_[idx]))}

\* the buffer of the engine, as an object of its own
FIFOQueue == [kind |-> "FIFOQueue", queue_ |-> <<>>]

\* QueueStrategy<T>::push and FIFOQueue::push, by the class of the object
push(s, item) ==
    IF s.kind = "FIFO" THEN FIFOStrategy_push(s, item)
    ELSE IF s.kind = "LIFO" THEN LIFOStrategy_push(s, item)
    ELSE IF s.kind = "RANDOM" THEN RandomStrategy_push(s, item)
    ELSE IF s.kind = "PRIORITY" THEN PriorityStrategy_push(s, item)
    ELSE IF s.kind = "ROUND_ROBIN" THEN RoundRobinStrategy_push(s, item)
    ELSE [s EXCEPT !.queue_ = FIFOQueue_push(@, item)]

\* QueueStrategy<T>::pop and FIFOQueue::pop, by the class of the object
pop(s) ==
    IF s.kind = "FIFO" THEN FIFOStrategy_pop(s)
    ELSE IF s.kind = "LIFO" THEN LIFOStrategy_pop(s)
    ELSE IF s.kind = "RANDOM" THEN RandomStrategy_pop(s)
    ELSE IF s.kind = "PRIORITY" THEN PriorityStrategy_pop(s)
    ELSE IF s.kind = "ROUND_ROBIN" THEN RoundRobinStrategy_pop(s)
    ELSE IF FIFOQueue_empty(s.queue_) THEN {PopThrew(s)}
    ELSE {Popped([s EXCEPT !.queue_ = FIFOQueue_pop(@)], FIFOQueue_front(s.queue_))}

\* RoundRobinStrategy::empty: no sub-queue is non-empty
RoundRobinStrategy_empty(s) == \A i \in DOMAIN s.queues_ : s.queues_[i] = <<>>

\* the total of the for loop of RoundRobinStrategy::size after the sub-queues 0..(n - 1)
RECURSIVE RoundRobinStrategy_total(_, _)
RoundRobinStrategy_total(s, n) ==
    IF n = 0 THEN 0 ELSE RoundRobinStrategy_total(s, n - 1) + Len(s.queues_[n - 1])

\* variant: size() that counts the sub-queue at the pointer only
RoundRobinStrategy_size_at_pointer(s) == Len(s.queues_[s.current_queue_])

RoundRobinStrategy_size(s) == RoundRobinStrategy_total(s, queues_size(s))

\* QueueStrategy<T>::empty and FIFOQueue::empty, by the class of the object
empty(s) ==
    IF s.kind = "FIFO" THEN s.queue_ = <<>>
    ELSE IF s.kind = "LIFO" THEN s.stack_ = <<>>
    ELSE IF s.kind = "RANDOM" THEN s.items_ = <<>>
    ELSE IF s.kind = "PRIORITY" THEN BagToSet(s.queue_) = {}
    ELSE IF s.kind = "ROUND_ROBIN" THEN RoundRobinStrategy_empty(s)
    ELSE FIFOQueue_empty(s.queue_)

\* QueueStrategy<T>::size and FIFOQueue::size, by the class of the object
size(s) ==
    IF s.kind = "FIFO" THEN Len(s.queue_)
    ELSE IF s.kind = "LIFO" THEN Len(s.stack_)
    ELSE IF s.kind = "RANDOM" THEN Len(s.items_)
    ELSE IF s.kind = "PRIORITY" THEN BagCardinality(s.queue_)
    ELSE IF s.kind = "ROUND_ROBIN" THEN RoundRobinStrategy_size(s)
    ELSE FIFOQueue_size(s.queue_)

\* variant: clone() that copies the items too
clone_with_items(s) == s

\* QueueStrategy<T>::clone, by the class of the object: a new object of the
\* class made by its constructor, RoundRobinStrategy with queues_.size()
clone(s) ==
    IF s.kind = "FIFO" THEN FIFOStrategy
    ELSE IF s.kind = "LIFO" THEN LIFOStrategy
    ELSE IF s.kind = "RANDOM" THEN RandomStrategy
    ELSE IF s.kind = "PRIORITY" THEN PriorityStrategy
    ELSE RoundRobinStrategy(queues_size(s))

\* the objects the constructors leave
Strategies ==
    {FIFOStrategy, LIFOStrategy, RandomStrategy, PriorityStrategy, FIFOQueue}
    \cup {RoundRobinStrategy(num_queues) : num_queues \in 1..MaxQueues}

DisciplineInit ==
    /\ EngineIdle
    /\ ConstructionIdle
    /\ ParallelIdle
    /\ strategy \in Strategies
    /\ last = NoOperation
    /\ pushes = 0
    /\ pushed = <<>>
    /\ pops = <<>>
    /\ served = -1

\* the items the n-th call of push may push: the item n, and to the random
\* discipline, which keeps no order, also an item equal to one pushed before
PushItems ==
    IF strategy.kind = "RANDOM" THEN 0..pushes ELSE {pushes}

Push ==
    /\ pushes < MaxPushes
    /\ \E item \in PushItems :
          /\ strategy' = push(strategy, item)
          /\ last' = [op |-> "push", item |-> item, thrown |-> "none",
                      before |-> strategy, served_before |-> served,
                      cloned |-> NoObject]
          /\ pushed' = Append(pushed, item)
    /\ pushes' = pushes + 1
    /\ UNCHANGED <<pops, served, engine_vars, construction_vars, parallel_vars>>

Pop ==
    /\ \E r \in pop(strategy) :
          /\ strategy' = r.self
          /\ last' = [op |-> "pop", item |-> r.item, thrown |-> r.thrown,
                      before |-> strategy, served_before |-> served,
                      cloned |-> NoObject]
          /\ pops' = IF r.thrown = "none" THEN Append(pops, r.item) ELSE pops
          /\ served' = IF r.thrown = "none" /\ strategy.kind = "ROUND_ROBIN"
                       THEN (r.self.current_queue_ + queues_size(strategy) - 1)
                                % queues_size(strategy)
                       ELSE served
    /\ UNCHANGED <<pushes, pushed, engine_vars, construction_vars, parallel_vars>>

\* clone() const on a discipline: the object stays, the clone is returned
Clone ==
    /\ strategy.kind # "FIFOQueue"
    /\ last' = [op |-> "clone", item |-> -1, thrown |-> "none",
                before |-> strategy, served_before |-> served,
                cloned |-> clone(strategy)]
    /\ UNCHANGED <<strategy, pushes, pushed, pops, served, engine_vars, construction_vars,
                   parallel_vars>>

\* job_queue_.clear() of initialize(): a new run begins on the buffer of the
\* engine, and the history of the calls begins again with it
Clear ==
    /\ strategy.kind = "FIFOQueue"
    /\ strategy' = [strategy EXCEPT !.queue_ = FIFOQueue_clear(@)]
    /\ last' = [op |-> "clear", item |-> -1, thrown |-> "none",
                before |-> strategy, served_before |-> served, cloned |-> NoObject]
    /\ pushes' = 0
    /\ pushed' = <<>>
    /\ pops' = <<>>
    /\ UNCHANGED <<served, engine_vars, construction_vars, parallel_vars>>

DisciplineNext ==
    \/ Push
    \/ Pop
    \/ Clone
    \/ Clear

DisciplineSpec == DisciplineInit /\ [][DisciplineNext]_vars

\* ------------------------------------------------------------ parallel runs
\* parallel_final.h launches `runs` tasks; each constructs its own generators
\* and its own Simulator from the values the lambda captured by copy, calls
\* run(time) and returns a statistic.  The tasks run in threads of their own,
\* so their loops interleave event by event.
Runs == 1..MaxRuns

\* the simulator a task constructs: the interval of the arrivals is drawn (1 or
\* 2), the service time is 1, one core, the buffer of the test case (unbounded
\* or none)
TaskSimulator(buffer) ==
    Simulator(UniformGenerator(1, 3), DeterministicGenerator(1), 1, buffer)

\* what a simulator drew in one pass of its loop: the event it popped and the
\* samples of its generators; in the prologue only the interval is drawn
Draw(e, service_time, interval) ==
    [e |-> e, service_time |-> service_time, interval |-> interval]

\* variant: next_job_id_ is one counter shared by all the simulators
async_shared_job_id(ts, i, t) ==
    [j \in DOMAIN ts |->
        IF j = i THEN t
        ELSE IF ts[j].pc = "launched" THEN ts[j]
        ELSE [ts[j] EXCEPT !.sim.next_job_id_ = t.sim.next_job_id_]]

\* a step of task i writes the locals of its lambda and the members of its
\* simulator, and nothing else: Simulator has no static data member and the
\* engine writes no global object but the output streams
async(ts, i, t) == [ts EXCEPT ![i] = t]

ParallelInit ==
    /\ EngineIdle
    /\ ConstructionIdle
    /\ DisciplineIdle
    /\ \E buffer \in {-1, 0} :
          tasks = [i \in Runs |-> [pc |-> "launched", buffer |-> buffer, sim |-> NoObject,
                                    iteration_count |-> 0, drawn |-> <<>>]]

\* the task constructs its simulator and enters run(time): initialize() and the
\* first arrival
TaskStart(i) ==
    /\ tasks[i].pc = "launched"
    /\ \E interval \in generate(TaskSimulator(tasks[i].buffer).arrival_generator_) :
          tasks' = async(tasks, i,
                         [tasks[i] EXCEPT
                            !.pc = "loop",
                            !.sim = call_prologue(TaskSimulator(tasks[i].buffer), interval),
                            !.drawn = <<Draw(NoEvent, 0, interval)>>])
    /\ UNCHANGED <<engine_vars, construction_vars, discipline_vars>>

\* one pass of the loop of run(time) in task i
TaskIterate(i) ==
    LET t == tasks[i]
    IN  /\ t.pc = "loop"
        /\ run_condition(t.sim, MaxTime)
        /\ t.iteration_count + 1 <= MAX_ITERATIONS
        /\ \E e \in event_queue_top(t.sim.event_queue_) :
            \E service_time \in IF e.type = "ARRIVAL"
                                 THEN generate(t.sim.service_generator_) ELSE {0} :
            \E interval \in IF e.type = "ARRIVAL"
                             THEN generate(t.sim.arrival_generator_) ELSE {0} :
               tasks' = async(tasks, i,
                              [t EXCEPT
                                 !.sim = loop_body(t.sim, e, service_time, interval),
                                 !.iteration_count = @ + 1,
                                 !.drawn = Append(@, Draw(e, service_time, interval))])
        /\ UNCHANGED <<engine_vars, construction_vars, discipline_vars>>

\* the loop of task i ends, by its condition or by the break: the final
\* update_busy_statistics, and the task returns
TaskReturn(i) ==
    LET t == tasks[i]
    IN  /\ t.pc = "loop"
        /\ ~(run_condition(t.sim, MaxTime) /\ t.iteration_count + 1 <= MAX_ITERATIONS)
        /\ tasks' = async(tasks, i,
                          [t EXCEPT
                             !.sim = update_busy_statistics(t.sim),
                             !.iteration_count =
                                IF run_condition(t.sim, MaxTime) THEN @ + 1 ELSE @,
                             !.pc = "returned"])
        /\ UNCHANGED <<engine_vars, construction_vars, discipline_vars>>

ParallelNext ==
    \/ \E i \in Runs : TaskStart(i)
    \/ \E i \in Runs : TaskIterate(i)
    \/ \E i \in Runs : TaskReturn(i)

ParallelSpec == ParallelInit /\ [][ParallelNext]_vars

\* ------------------------------------------------------------ properties
\* the states of a job at an event boundary
Arrived == 0..(sim.next_job_id_ - 1)
Buffered(id) == \E i \in 1..Len(sim.job_queue_) : sim.job_queue_[i].id = id
InService(id) == \E c \in Cores(sim) : sim.cores_busy_[c] /\ sim.cores_current_job_[c] = id
Departed(id) == \E i \in 1..Len(departed_jobs) : departed_jobs[i] = id
Lost(id) == id \in lost_jobs
HasDeparture(id) ==
    \E e \in BagToSet(sim.event_queue_) : e.type = "DEPARTURE" /\ e.job_id = id

\* no generate() call of the two generators returns a negative sample
NonNegativeSamples ==
    \A x \in generate(sim.arrival_generator_) \cup generate(sim.service_generator_) : x >= 0

\* one core, unbounded buffer, Deterministic(d) arrivals, Deterministic(v) service
DeterministicSingleServer ==
    /\ sim.num_cores_ = 1
    /\ sim.buffer_capacity_ = -1
    /\ sim.arrival_generator_.kind = "Deterministic"
    /\ sim.service_generator_.kind = "Deterministic"

\* LoopStepEnabled is what it is named after
LoopStepEnabledIsEnabled == LoopStepEnabled <=> ENABLED <<LoopStep>>_vars

\* C1: at every event boundary jobs_completed + jobs_lost + jobs_in_system
\* equals total_arrivals.
C1_JobConservation ==
    jobs_completed(sim) + jobs_lost(sim) + jobs_in_system(sim) = total_arrivals(sim)

C1_Witness ==
    /\ jobs_completed(sim) > 0
    /\ jobs_lost(sim) > 0
    /\ jobs_in_system(sim) > 0

\* C2: with a finite capacity c >= 0 the buffer never holds more than c jobs,
\* and a job that found every core busy and was not lost (so was pushed) found
\* fewer than c jobs in the buffer.
C2_BufferBounded ==
    sim.buffer_capacity_ >= 0 =>
        /\ queue_length(sim) <= sim.buffer_capacity_
        /\ \A id \in DOMAIN arrival_obs :
              (arrival_obs[id].all_busy /\ ~Lost(id)) =>
                  arrival_obs[id].queue_size < sim.buffer_capacity_

C2_Witness ==
    /\ sim.buffer_capacity_ = 1
    /\ queue_length(sim) = 1
    /\ lost_jobs # {}

\* C3: with the unbounded buffer (capacity -1) no job is ever lost.
C3_UnboundedNeverLoses ==
    sim.buffer_capacity_ = -1 => jobs_lost(sim) = 0

C3_Witness ==
    /\ sim.buffer_capacity_ = -1
    /\ queue_length(sim) >= 2
    /\ jobs_lost(sim) = 0

\* C4 (as claimed): run(T) handles no event whose time is >= T, and
\* current_time after run(T) has returned does not exceed T.
C4_RunStopsBeforeHorizon ==
    fn = "run" =>
        /\ next_event.type # "NONE" => next_event.time < simulation_time
        /\ pc = "returned" => current_time(sim) <= simulation_time

\* C5: with non-negative samples, inside the loop current_time never decreases
\* and the events popped have non-decreasing times.
C5_TimeMonotone ==
    [][(pc = "loop" /\ NonNegativeSamples) =>
          /\ current_time(sim') >= current_time(sim)
          /\ next_event.type # "NONE" => next_event'.time >= next_event.time]_vars

C5_Witness ==
    /\ NonNegativeSamples
    /\ pc = "loop"
    /\ iteration_count >= 3
    /\ next_event.type = "DEPARTURE"
    /\ current_time(sim) >= 2

\* C6: a job is counted as lost exactly when at its arrival event every core
\* was busy and the buffer held capacity-many jobs; a lost job is not buffered,
\* holds no core, has no departure event and has no recorded sample.
C6_LostIffFull ==
    /\ jobs_lost(sim) = Cardinality(lost_jobs)
    /\ \A id \in DOMAIN arrival_obs :
          Lost(id) <=> /\ arrival_obs[id].all_busy
                       /\ sim.buffer_capacity_ # -1
                       /\ arrival_obs[id].queue_size = sim.buffer_capacity_
    /\ \A id \in lost_jobs :
          ~Buffered(id) /\ ~InService(id) /\ ~HasDeparture(id) /\ ~Departed(id)

C6_Witness ==
    /\ lost_jobs # {}
    /\ departed_jobs # <<>>
    /\ \E id \in DOMAIN arrival_obs : arrival_obs[id].all_busy /\ ~Lost(id)

\* C7: every arrived job is in exactly one of the states buffered, in service,
\* departed, lost; the departed and lost jobs are recorded for good, so a job
\* in one of them is in no other state afterwards; every departed job is
\* counted once in jobs_completed.
C7_OneStatePerJob ==
    /\ \A id \in Arrived :
          Cardinality({st \in {"buffered", "service", "departed", "lost"} :
                          \/ st = "buffered" /\ Buffered(id)
                          \/ st = "service" /\ InService(id)
                          \/ st = "departed" /\ Departed(id)
                          \/ st = "lost" /\ Lost(id)}) = 1
    /\ \A i, j \in 1..Len(departed_jobs) : departed_jobs[i] = departed_jobs[j] => i = j
    /\ jobs_completed(sim) = Len(departed_jobs)

C7_Witness ==
    /\ \E id \in Arrived : Departed(id)
    /\ \E id \in Arrived : Lost(id)
    /\ \E id \in Arrived : InService(id)
    /\ \E id \in DOMAIN arrival_obs : arrival_obs[id].all_busy /\ InService(id)

\* C8: every call of run / run_until_jobs starts its loop in the state a
\* freshly constructed simulator starts it in, whatever state the previous call
\* left; the rest of the call is a function of that state and of the samples.
C8_CallResets ==
    (pc = "loop" /\ iteration_count = 0) =>
        \E interval \in generate(sim.arrival_generator_) :
            sim = call_prologue(Simulator(sim.arrival_generator_, sim.service_generator_,
                                          sim.num_cores_, sim.buffer_capacity_), interval)

C8_Witness ==
    /\ pc = "loop"
    /\ iteration_count = 0
    /\ used

\* C9: one core, unbounded buffer, Deterministic(d) arrivals and
\* Deterministic(v) service with d >= v: every recorded wait time is 0 and so
\* is avg_wait_time, in either order of the events of equal time.
C9_DeterministicZeroWait ==
    (DeterministicSingleServer /\ sim.arrival_generator_.p1 >= sim.service_generator_.p1) =>
        /\ \A i \in 1..Len(sim.wait_times_) : sim.wait_times_[i] = 0
        /\ avg_wait_time(sim).num = 0

\* a job that was buffered (its arrival was handled before the departure of the
\* same time) has departed
C9_Witness ==
    /\ DeterministicSingleServer
    /\ sim.arrival_generator_.p1 = sim.service_generator_.p1
    /\ fn = "run"
    /\ \E id \in DOMAIN arrival_obs : arrival_obs[id].all_busy /\ Departed(id)

FoundAllBusy == {id \in DOMAIN arrival_obs : arrival_obs[id].all_busy}

\* C11: with buffer_capacity 0 the buffer is always empty and every job that
\* arrives while all cores are busy is lost and counted in jobs_lost; with one
\* core, jobs_lost > 0 as soon as one arrival found the core busy.
C11_ZeroBufferLoses ==
    sim.buffer_capacity_ = 0 =>
        /\ queue_length(sim) = 0
        /\ \A id \in FoundAllBusy : Lost(id)
        /\ jobs_lost(sim) = Cardinality(FoundAllBusy)
        /\ (sim.num_cores_ = 1 /\ FoundAllBusy # {}) => jobs_lost(sim) > 0

C11_Witness ==
    /\ sim.buffer_capacity_ = 0
    /\ sim.num_cores_ = 1
    /\ sim.arrival_generator_.kind = "Exponential"
    /\ sim.service_generator_.kind = "Exponential"
    /\ FoundAllBusy # {}
    /\ jobs_lost(sim) > 0
    /\ jobs_completed(sim) > 0

\* the call returned because its loop condition was false, not by the break
ReturnedByCondition ==
    pc = "returned" /\ iteration_count <= MAX_ITERATIONS

\* C12: run_until_jobs(K) never completes more than K jobs; when it returns
\* by its loop condition, jobs_completed = K for K >= 1 and the event handled
\* last is the departure of the K-th job; for K <= 0 it handles no event.
C12_StopsAtJobCount ==
    fn = "run_until_jobs" =>
        /\ jobs_to_process >= 1 =>
              /\ jobs_completed(sim) <= jobs_to_process
              /\ ReturnedByCondition => jobs_completed(sim) = jobs_to_process
              /\ jobs_completed(sim) = jobs_to_process =>
                    /\ next_event.type = "DEPARTURE"
                    /\ departed_jobs[Len(departed_jobs)] = next_event.job_id
        /\ jobs_to_process <= 0 =>
              /\ iteration_count = 0
              /\ next_event = NoEvent
              /\ total_arrivals(sim) = 0
              /\ jobs_completed(sim) = 0

C12_Witness ==
    /\ fn = "run_until_jobs"
    /\ ReturnedByCondition
    /\ jobs_to_process >= 1
    /\ jobs_completed(sim) = jobs_to_process
    /\ jobs_in_system(sim) > 0

\* C13: every call of run / run_until_jobs returns: its loop handles at most
\* MAX_ITERATIONS events and then stops without an exception, also when the
\* loop condition stays true for ever; what the counters hold then is the
\* part of the run that was made.
C13_Terminates ==
    /\ [](/\ pc # "threw"
          /\ iteration_count <= MAX_ITERATIONS + 1
          /\ total_arrivals(sim) + jobs_completed(sim) <= MAX_ITERATIONS
          /\ pc = "loop" => total_arrivals(sim) + jobs_completed(sim) = iteration_count
          /\ (pc = "returned" /\ iteration_count = MAX_ITERATIONS + 1) =>
                /\ total_arrivals(sim) + jobs_completed(sim) = MAX_ITERATIONS
                /\ Len(sim.wait_times_) = jobs_completed(sim)
                /\ sim.last_busy_check_time_ >= current_time(sim))
    /\ (pc = "loop") ~> (pc = "returned")

\* run(T) with T > 0 stopped by the cap at time 0: the intervals are all 0
C13_Witness ==
    /\ fn = "run"
    /\ pc = "returned"
    /\ iteration_count = MAX_ITERATIONS + 1
    /\ simulation_time > 0
    /\ current_time(sim) = 0
    /\ jobs_completed(sim) > 0

\* C14 (as claimed): every sample generate() returns, of every generator that
\* was constructed, is non-negative.
C14_SamplesNonNegative ==
    outcome = "generated" => sample >= 0

\* the configurations the constructors are to refuse
InvalidConfiguration(c) ==
    \/ c.class = "Simulator" /\ c.a <= 0
    \/ c.class = "Exponential" /\ c.a <= 0
    \/ c.class = "Uniform" /\ c.a >= c.b
    \/ c.class = "Erlang" /\ (c.a <= 0 \/ c.b <= 0)

\* C15: a constructor call with an invalid configuration ends in an error at
\* once and leaves no object; with every other configuration it leaves the
\* object.
C15_InvalidConfigurationFails ==
    outcome # "call" =>
        IF InvalidConfiguration(call)
        THEN outcome \in {"invalid_argument", "abort"} /\ object = NoObject
        ELSE outcome \in {"constructed", "generated"} /\ object # NoObject

C15_Witness ==
    /\ call.class = "Simulator"
    /\ call.a = 0
    /\ outcome = "invalid_argument"
    /\ object = NoObject

\* the items a discipline object holds
Range(q) == {q[i] : i \in 1..Len(q)}

Items(s) ==
    IF s.kind = "LIFO" THEN Range(s.stack_)
    ELSE IF s.kind = "RANDOM" THEN Range(s.items_)
    ELSE IF s.kind = "PRIORITY" THEN {x.item : x \in BagToSet(s.queue_)}
    ELSE IF s.kind = "ROUND_ROBIN" THEN UNION {Range(s.queues_[i]) : i \in DOMAIN s.queues_}
    ELSE Range(s.queue_)

\* the call made last was a pop that returned an item
PopReturned == last.op = "pop" /\ last.thrown = "none"

\* the item returned last is the one pushed first (last) of those held before
ReturnedEarliest == \A x \in Items(last.before) : last.item <= x
ReturnedLatest == \A x \in Items(last.before) : last.item >= x

\* the items left in the order they were pushed in: 0, 1, 2, ...
LeftInPushOrder == pops = [i \in 1..Len(pops) |-> i - 1]

\* C16: FIFOStrategy and FIFOQueue: whatever the interleaving of push and pop,
\* pop returns the item pushed earliest among those held, so the items leave
\* in the order they were pushed in.
C16_FIFOOrder ==
    strategy.kind \in {"FIFO", "FIFOQueue"} =>
        /\ PopReturned => ReturnedEarliest
        /\ LeftInPushOrder

C16_Witness ==
    /\ strategy.kind = "FIFO"
    /\ PopReturned
    /\ Len(pops) >= 2
    /\ Cardinality(Items(strategy)) >= 2

\* C17: LIFOStrategy: whatever the interleaving of push and pop, pop returns
\* the item pushed last among those held.
C17_LIFOOrder ==
    (strategy.kind = "LIFO" /\ PopReturned) =>
        /\ last.item \in Items(last.before)
        /\ ReturnedLatest

\* a pop that returns an item older than one popped before
C17_Witness ==
    /\ strategy.kind = "LIFO"
    /\ PopReturned
    /\ Cardinality(Items(last.before)) >= 2
    /\ \E i \in 1..Len(pops) : pops[i] > last.item

\* C18 (as claimed): PriorityStrategy: whatever the interleaving of push and
\* pop, the items leave in the order they were pushed in, as with FIFO.
C18_PriorityIsFIFO ==
    strategy.kind = "PRIORITY" =>
        /\ PopReturned => ReturnedEarliest
        /\ LeftInPushOrder

\* C19 (as claimed): RoundRobinStrategy with k sub-queues: the n-th item pushed
\* is placed in sub-queue n mod k, whatever pops were made in between.
C19_PushCyclesModK ==
    (strategy.kind = "ROUND_ROBIN" /\ last.op = "push") =>
        last.item \in Range(strategy.queues_[last.item % queues_size(strategy)])

\* the first non-empty sub-queue of s in cyclic order from start on
FirstNonEmptyFrom(s, start) ==
    LET found == {i \in 0..(queues_size(s) - 1) :
                     s.queues_[(start + i) % queues_size(s)] # <<>>}
        first == CHOOSE i \in found : \A j \in found : i <= j
    IN  (start + first) % queues_size(s)

\* C20 (as claimed): RoundRobinStrategy: pop scans from the sub-queue after the
\* one the pop before took from (from 0 at first), whatever pushes were made
\* in between, and returns the front of the first non-empty sub-queue.
C20_PopScansFromLastServed ==
    (strategy.kind = "ROUND_ROBIN" /\ PopReturned) =>
        LET start == (last.served_before + 1) % queues_size(strategy)
        IN  last.item = Head(last.before.queues_[FirstNonEmptyFrom(last.before, start)])

\* the multiset of the items of a sequence
BagOfSeq(q) == [x \in Range(q) |-> Cardinality({i \in 1..Len(q) : q[i] = x})]

\* C21: RandomStrategy: pop returns one of the items held and removes exactly
\* one occurrence of it: the multiset of the items left is the multiset held
\* before minus the item returned, whatever index is drawn, the last included.
C21_RandomRemovesReturned ==
    (strategy.kind = "RANDOM" /\ PopReturned) =>
        /\ last.item \in Range(last.before.items_)
        /\ BagOfSeq(strategy.items_) (+) SetToBag({last.item})
              = BagOfSeq(last.before.items_)

\* the index drawn was the last one, with an item held twice among the others
C21_Witness ==
    /\ strategy.kind = "RANDOM"
    /\ PopReturned
    /\ Len(last.before.items_) >= 3
    /\ last.item = last.before.items_[Len(last.before.items_)]
    /\ CopiesIn(last.item, BagOfSeq(last.before.items_)) = 1
    /\ \E x \in Range(strategy.items_) : CopiesIn(x, BagOfSeq(strategy.items_)) = 2

\* C22: every discipline (FIFO, LIFO, Random, Priority, RoundRobin) and the
\* FIFOQueue of the engine: pop on an object that holds no item throws, and
\* leaves the object as it was: empty, and for RoundRobin with the sub-queue
\* pointer where it was.
C22_PopOnEmptyThrows ==
    (last.op = "pop" /\ Items(last.before) = {}) =>
        /\ last.thrown = "runtime_error"
        /\ strategy = last.before
        /\ Items(strategy) = {}

\* a round-robin object emptied by pops, its pointer not at 0, is popped again
C22_Witness ==
    /\ strategy.kind = "ROUND_ROBIN"
    /\ last.op = "pop"
    /\ last.thrown = "runtime_error"
    /\ pops # <<>>
    /\ last.before.current_queue_ # 0

\* the loop of run(time) of one simulator alone, fed the draws d one pass
\* after the other for as long as the loop goes on
RECURSIVE run_loop_alone(_, _, _)
run_loop_alone(s, n, d) ==
    IF /\ d # <<>>
       /\ run_condition(s, MaxTime)
       /\ n + 1 <= MAX_ITERATIONS
       /\ Head(d).e \in event_queue_top(s.event_queue_)
    THEN run_loop_alone(loop_body(s, Head(d).e, Head(d).service_time, Head(d).interval),
                        n + 1, Tail(d))
    ELSE [sim |-> s, left |-> d,
          ended |-> ~(run_condition(s, MaxTime) /\ n + 1 <= MAX_ITERATIONS)]

\* run(time) on a simulator constructed alone and fed the draws d
run_alone(buffer, d) ==
    run_loop_alone(call_prologue(TaskSimulator(buffer), Head(d).interval), 0, Tail(d))

AtEventBoundary == pc \in {"loop", "returned"}

\* the number of pending events of the timeline that satisfy Test
Pending(Test(_)) ==
    LET q == sim.event_queue_
    IN  BagCardinality([e \in {x \in BagToSet(q) : Test(x)} |-> q[e]])

PendingArrivals == LET IsArrival(e) == e.type = "ARRIVAL" IN Pending(IsArrival)
PendingDepartures(id) ==
    LET IsDepartureOf(e) == e.type = "DEPARTURE" /\ e.job_id = id
    IN  Pending(IsDepartureOf)

\* C24: at every event boundary the timeline holds exactly one arrival event,
\* one departure event for each job in service and none for any other job, so
\* its size is 1 + the number of busy cores.
C24_OneEventPerJobInService ==
    [](
    AtEventBoundary =>
        /\ PendingArrivals = 1
        /\ \A e \in BagToSet(sim.event_queue_) :
              e.type = "DEPARTURE" => e.job_id \in Arrived
        /\ \A id \in Arrived :
              PendingDepartures(id) = IF InService(id) THEN 1 ELSE 0
        /\ BagCardinality(sim.event_queue_) = 1 + count_busy_cores(sim)
    )

\* two jobs in service after a job has departed
C24_Witness ==
    /\ pc = "loop"
    /\ count_busy_cores(sim) = 2
    /\ sim.jobs_completed_ >= 1

\* C25: at every event boundary no two busy cores hold the same job id.
C25_DistinctJobsOnCores ==
    [](
    AtEventBoundary =>
        \A i, j \in Cores(sim) :
            (i # j /\ sim.cores_busy_[i] /\ sim.cores_busy_[j]) =>
                sim.cores_current_job_[i] # sim.cores_current_job_[j]
    )

\* a call has returned with two cores busy, the lower one with the later job
C25_Witness ==
    /\ pc = "returned"
    /\ \A c \in Cores(sim) : sim.cores_busy_[c]
    /\ sim.num_cores_ = 2
    /\ sim.cores_current_job_[0] > sim.cores_current_job_[1]

\* the job is in the active-job table, has started and has not finished (the
\* times of a Job are -1 until they are set)
StartedUnfinished(id) ==
    /\ id \in DOMAIN sim.active_jobs_
    /\ sim.active_jobs_[id].start_time >= 0
    /\ sim.active_jobs_[id].finish_time < 0

\* the finish time of busy core c is start_time + service_time of its job and
\* the time of the pending departure of that job from that core
FinishTimeMatches(c) ==
    LET id == sim.cores_current_job_[c]
        job == sim.active_jobs_[id]
    IN  /\ id \in DOMAIN sim.active_jobs_
        /\ sim.cores_finish_time_[c] = job.start_time + job.service_time
        /\ DepartureEvent(sim.cores_finish_time_[c], id, c) \in BagToSet(sim.event_queue_)

\* C26 (as claimed): at every event boundary a core is busy iff it holds the id
\* of a job of the active-job table that has started and has not finished; a
\* free core holds -1; the finish time of a busy core is start_time +
\* service_time of its job, the time of its pending departure, and not before
\* current_time.
C26_BusyCoreHoldsJobInService ==
    AtEventBoundary =>
        \A c \in Cores(sim) :
            /\ sim.cores_busy_[c] <=> StartedUnfinished(sim.cores_current_job_[c])
            /\ ~sim.cores_busy_[c] => sim.cores_current_job_[c] = -1
            /\ sim.cores_busy_[c] =>
                  /\ FinishTimeMatches(c)
                  /\ sim.cores_finish_time_[c] >= sim.current_time_

\* the same with generators that return no negative sample
C26_GivenNonNegativeSamples == NonNegativeSamples => C26_BusyCoreHoldsJobInService

\* C27: every departure event of the timeline names a job of the active-job
\* table and the core that holds it, so the event popped does; and the
\* departure popped last took the branch that records the job's samples, not
\* the 'job not found' branch.
C27_DepartureFindsJob ==
    [](
    AtEventBoundary =>
        /\ \A e \in BagToSet(sim.event_queue_) :
              e.type = "DEPARTURE" =>
                  /\ e.job_id \in DOMAIN sim.active_jobs_
                  /\ e.core_id \in Cores(sim)
                  /\ sim.cores_busy_[e.core_id]
                  /\ sim.cores_current_job_[e.core_id] = e.job_id
        /\ next_event.type = "DEPARTURE" =>
              /\ departed_jobs # <<>>
              /\ departed_jobs[Len(departed_jobs)] = next_event.job_id
              /\ next_event.job_id \notin DOMAIN sim.active_jobs_
              /\ Len(departed_jobs) = sim.jobs_completed_
    )

\* a departure has been popped while another job is in service
C27_Witness ==
    /\ pc = "loop"
    /\ next_event.type = "DEPARTURE"
    /\ departed_jobs # <<>>
    /\ count_busy_cores(sim) >= 1

\* C28: no run raises an exception: the engine pops its buffer only when it
\* holds a job, and calls occupy_core and release_core only with a core index
\* in [0, num_cores), so neither the runtime_error of FIFOQueue::pop nor the
\* out_of_range of occupy_core / release_core is ever thrown.
C28_NoEngineError ==
    [](
    /\ pc # "threw"
    /\ pc \in {"constructed", "loop", "returned"} => sim.thrown = "none"
    )

\* a departure has handed its core to a job popped from the buffer, and a
\* later departure found the buffer empty
C28_Witness ==
    /\ pc = "loop"
    /\ next_event.type = "DEPARTURE"
    /\ Len(departed_jobs) >= 2
    /\ \E id \in FoundAllBusy : Departed(id)
    /\ sim.job_queue_ = <<>>
    /\ count_busy_cores(sim) = 0

\* a pass of the loop that handles a departure event
DepartureHandled ==
    /\ pc = "loop"
    /\ iteration_count' = iteration_count + 1
    /\ pc' # "returned"
    /\ next_event'.type = "DEPARTURE"

\* C29: a departure handled while the buffer holds a job hands the core it
\* frees, in the same event, to the job popped from the buffer: the start_time
\* of that job is current_time, the core is busy with its id, and a departure
\* of it from that core is scheduled at current_time + its service_time; a
\* departure handled while the buffer is empty leaves the core free.
C29_DepartureHandsCoreOver ==
    [][DepartureHandled =>
        LET c == next_event'.core_id
            job == Head(sim.job_queue_)
        IN  IF sim.job_queue_ # <<>>
            THEN /\ sim'.job_queue_ = Tail(sim.job_queue_)
                 /\ sim'.cores_busy_[c]
                 /\ sim'.cores_current_job_[c] = job.id
                 /\ job.id \in DOMAIN sim'.active_jobs_
                 /\ sim'.active_jobs_[job.id].start_time = sim'.current_time_
                 /\ sim'.cores_finish_time_[c] = sim'.current_time_ + job.service_time
                 /\ DepartureEvent(sim'.current_time_ + job.service_time, job.id, c)
                        \in BagToSet(sim'.event_queue_)
            ELSE /\ ~sim'.cores_busy_[c]
                 /\ sim'.cores_current_job_[c] = -1
                 /\ sim'.job_queue_ = <<>>]_vars

\* the departure popped last handed its core to a job that had waited in the
\* buffer behind another one
C29_Witness ==
    /\ pc = "loop"
    /\ next_event.type = "DEPARTURE"
    /\ sim.cores_busy_[next_event.core_id]
    /\ sim.cores_current_job_[next_event.core_id] \in FoundAllBusy
    /\ sim.active_jobs_[sim.cores_current_job_[next_event.core_id]].start_time
          = sim.current_time_
    /\ sim.job_queue_ # <<>>

\* the time in service, up to current_time, of the jobs dispatched so far: of a
\* departed job finish_time - start_time, which is the difference of its two
\* recorded samples, and of a job in service current_time - start_time
RECURSIVE ServiceOfDeparted(_)
ServiceOfDeparted(n) ==
    IF n = 0 THEN 0
    ELSE (sim.system_times_[n] - sim.wait_times_[n]) + ServiceOfDeparted(n - 1)

RECURSIVE ServiceOfBusy(_)
ServiceOfBusy(n) ==
    IF n = 0 THEN 0
    ELSE (IF sim.cores_busy_[n - 1]
          THEN sim.current_time_ - sim.active_jobs_[sim.cores_current_job_[n - 1]].start_time
          ELSE 0) + ServiceOfBusy(n - 1)

TimeInService == ServiceOfDeparted(Len(sim.wait_times_)) + ServiceOfBusy(sim.num_cores_)

\* num/den <= 1
AtMostOne(f) == IF f.den > 0 THEN f.num <= f.den ELSE f.num >= f.den

\* C30 (as claimed): at every event boundary total_busy_time_ is the sum over
\* the jobs dispatched so far of min(finish_time, current_time) - start_time;
\* it lies between 0 and current_time * num_cores, and server_utilization is
\* at most 1.
C30_BusyTimeIsTimeInService ==
    AtEventBoundary =>
        /\ sim.total_busy_time_ = TimeInService
        /\ 0 <= sim.total_busy_time_
        /\ sim.total_busy_time_ <= sim.current_time_ * sim.num_cores_
        /\ AtMostOne(server_utilization(sim))

\* the same with generators that return no negative sample
C30_GivenNonNegativeSamples == NonNegativeSamples => C30_BusyTimeIsTimeInService

\* C31: clone() of a discipline, whatever it holds, returns a new object of the
\* same class as its constructor leaves it (empty, RoundRobinStrategy with as
\* many sub-queues) and leaves the discipline itself as it was; clear(), which
\* initialize() calls at the start of each run, empties the buffer of the
\* engine.
C31_CloneIsFreshAndClearEmpties ==
    /\ last.op = "clone" =>
          /\ last.cloned.kind = last.before.kind
          /\ last.cloned \in Strategies
          /\ Items(last.cloned) = {}
          /\ last.before.kind = "ROUND_ROBIN" =>
                queues_size(last.cloned) = queues_size(last.before)
          /\ strategy = last.before
    /\ last.op = "clear" =>
          /\ strategy = FIFOQueue
          /\ Items(strategy) = {}

\* a round-robin object that holds items, its pointer not at 0, has been cloned
C31_Witness ==
    /\ last.op = "clone"
    /\ strategy.kind = "ROUND_ROBIN"
    /\ queues_size(strategy) >= 2
    /\ Cardinality(Items(strategy)) >= 2
    /\ strategy.current_queue_ # 0
    /\ pops # <<>>

\* both generators are Deterministic: the two sample sequences are fixed
FixedSamples ==
    /\ sim.arrival_generator_.kind = "Deterministic"
    /\ sim.service_generator_.kind = "Deterministic"

\* run(T) from the loop on with one order of the events of equal time (the
\* order CHOOSE fixes), and whether the event popped in some pass had the
\* time of another pending event
RECURSIVE run_in_one_order(_, _, _)
run_in_one_order(s, n, T) ==
    IF run_condition(s, T) /\ n + 1 <= MAX_ITERATIONS
    THEN LET e == CHOOSE x \in event_queue_top(s.event_queue_) : TRUE
             service_time == CHOOSE x \in generate(s.service_generator_) : TRUE
             interval == CHOOSE x \in generate(s.arrival_generator_) : TRUE
             rest == run_in_one_order(loop_body(s, e, service_time, interval), n + 1, T)
         IN  [sim |-> rest.sim,
              tied |-> rest.tied
                         \/ \E f \in BagToSet(s.event_queue_) : f # e /\ f.time = e.time]
    ELSE [sim |-> update_busy_statistics(s), tied |-> FALSE]

\* the run(T) of the simulator in that one order
RunInOneOrder ==
    run_in_one_order(
        call_prologue(sim, CHOOSE x \in generate(sim.arrival_generator_) : TRUE),
        0, simulation_time)

\* what the claim calls the outcome of a run
Outcome(s) == <<s.total_arrivals_, s.jobs_completed_, s.jobs_lost_, s.wait_times_>>

C33_WorkConserving ==
    [](
    (AtEventBoundary /\ sim.job_queue_ # <<>>) =>
        \A c \in Cores(sim) : sim.cores_busy_[c]
    )

\* a job waits in the buffer of a simulator with two cores
C33_Witness ==
    /\ pc = "loop"
    /\ sim.num_cores_ = 2
    /\ sim.job_queue_ # <<>>
    /\ next_event.type = "ARRIVAL"
    /\ sim.next_job_id_ >= 3

\* C34: at every event boundary jobs_in_system (the size of the active-job
\* table) is queue_length plus the number of busy cores, and every job in the
\* buffer is in the active-job table with start_time still -1 (not started).
C34_InSystemIsBufferedPlusInService ==
    [](
    AtEventBoundary =>
        /\ jobs_in_system(sim) = queue_length(sim) + count_busy_cores(sim)
        /\ \A i \in 1..Len(sim.job_queue_) :
              /\ sim.job_queue_[i].id \in DOMAIN sim.active_jobs_
              /\ sim.active_jobs_[sim.job_queue_[i].id].start_time = -1
              /\ sim.job_queue_[i].start_time = -1
    )

\* jobs in the buffer and in service after a job was lost or has departed
C34_Witness ==
    /\ AtEventBoundary
    /\ queue_length(sim) >= 1
    /\ count_busy_cores(sim) >= 1
    /\ jobs_in_system(sim) >= 2
    /\ sim.jobs_completed_ + sim.jobs_lost_ >= 1
    /\ sim.current_time_ >= 1

\* the job has been dispatched to a core: it is in service or has departed
Started(id) == InService(id) \/ Departed(id)

\* the start_time of a job that has started: that of its entry in the
\* active-job table, or for a departed job its arrival time plus the wait
\* recorded at its departure
StartTime(id) ==
    IF id \in DOMAIN sim.active_jobs_ THEN sim.active_jobs_[id].start_time
    ELSE LET n == CHOOSE k \in 1..Len(departed_jobs) : departed_jobs[k] = id
         IN  arrival_obs[id].arrival_time + sim.wait_times_[n]

\* C35 (as claimed): jobs begin service in arrival order: of two jobs i < j
\* that are not lost, j has not started while i waits in the buffer, and if
\* both have started then start_time(i) <= start_time(j).
C35_ServiceInArrivalOrder ==
    AtEventBoundary =>
        \A i, j \in Arrived :
            (i < j /\ ~Lost(i) /\ ~Lost(j) /\ Started(j)) =>
                /\ ~Buffered(i)
                /\ Started(i)
                /\ StartTime(i) <= StartTime(j)

\* the same with generators that return no negative sample
C35_GivenNonNegativeSamples == NonNegativeSamples => C35_ServiceInArrivalOrder

\* C36: at every event boundary wait_times_ and system_times_ each hold
\* jobs_completed_ samples, one pair for each departed job in the order of the
\* departures; no job has two pairs, and a lost, buffered or in-service job has
\* none.
C36_OneSamplePairPerDeparture ==
    [](
    AtEventBoundary =>
        /\ Len(sim.wait_times_) = sim.jobs_completed_
        /\ Len(sim.system_times_) = sim.jobs_completed_
        /\ Len(departed_jobs) = sim.jobs_completed_
        /\ \A k, n \in 1..Len(departed_jobs) :
              departed_jobs[k] = departed_jobs[n] => k = n
        /\ \A id \in Arrived :
              (Lost(id) \/ Buffered(id) \/ InService(id)) => ~Departed(id)
    )

\* a job has departed, one was lost and one is in service
C36_Witness ==
    /\ AtEventBoundary
    /\ sim.jobs_completed_ >= 1
    /\ sim.jobs_lost_ >= 1
    /\ count_busy_cores(sim) >= 1
    /\ sim.system_times_ # sim.wait_times_

RECURSIVE drain(_)
drain(s) ==
    IF empty(s) THEN {[items |-> EmptyBag, thrown |-> "none"]}
    ELSE UNION {IF r.thrown # "none" THEN {[items |-> EmptyBag, thrown |-> r.thrown]}
                ELSE {[d EXCEPT !.items = SetToBag({r.item}) (+) @] : d \in drain(r.self)} :
                r \in pop(s)}

PositiveArrivals ==
    /\ \A x \in generate(sim.arrival_generator_) : x >= 1
    /\ \A x \in generate(sim.service_generator_) : x >= 0

MaxOf(S) == CHOOSE x \in S : \A y \in S : y <= x

\* the cap is large enough for the call: with arrivals at least 1 apart, run(T)
\* handles fewer than T arrivals and as many departures before the event that
\* reaches T, and run_until_jobs(K) completes a job in every stretch of one
\* largest inter-arrival sample and one largest service sample
CapLargeEnough ==
    IF fn = "run" THEN 2 * simulation_time - 1 <= MAX_ITERATIONS
    ELSE jobs_to_process
            * (MaxOf(generate(sim.arrival_generator_))
                 + MaxOf(generate(sim.service_generator_)) + 1) <= MAX_ITERATIONS

====
